---- MODULE Spec2Model ----
(***************************************************************************)
(* Metadata facade of the query server (query_server/query/src/metadata.rs) *)
(* LocalCatalogMeta over a catalog registry (UserCatalog), its Database    *)
(* objects and the storage engine, and the planner adapter                 *)
(* MetadataProvider.                                                       *)
(*                                                                         *)
(* A string is modelled as the sequence of its '.'-separated parts:        *)
(* "logs.t" is <<"logs", "t">> and the plain name "t" is <<"t">>.  This is *)
(* what s.split('.') yields, so TableReference::from(&str) is computed on  *)
(* the parts as the library computes it, and a dotted string can still be  *)
(* used whole as a map key (as alter_table_drop_column does).              *)
(***************************************************************************)
EXTENDS Integers, Sequences, FiniteSets, TLC

VARIABLES
    engine,     \* storage engine: database name -> persisted DatabaseSchema
    catalogs,   \* the UserCatalog registries built so far (Arc<UserCatalog>)
    last,       \* the operation that ran last and what it returned
    inflight,   \* calls of parallel threads between their two registry accesses
    ids,        \* identity of the Database object registered under each name
    orphans,    \* deregistered Database objects an in-flight call still holds
    stream      \* the batch stream made by stream_from_batches, being polled

vars == <<engine, catalogs, last, inflight, ids, orphans, stream>>

(***************************** bounds **************************************)
\* most new_with_default calls on one engine (specification SpecBoot)
MaxCatalogs == 2

(***************************** names ***************************************)
DEFAULT_CATALOG == <<"default_catalog">>
DEFAULT_DATABASE == <<"public">>

CatalogNames == {DEFAULT_CATALOG, <<"tenant">>}
DatabaseNames == {DEFAULT_DATABASE, <<"logs">>}
TableNames == {<<"t">>, <<"u">>}

\* a.b : the string a, a dot, the string b
Dot(a, b) == a \o b

\* the table names a caller passes: bare, db.table and catalog.db.table
BareRefs == TableNames
PartialRefs == {Dot(d, t) : d \in DatabaseNames, t \in TableNames}
FullRefs == {Dot(c, Dot(d, t)) : c \in CatalogNames, d \in DatabaseNames, t \in TableNames}
Refs == BareRefs \cup PartialRefs \cup FullRefs
(***************************** results *************************************)
Ok(v) == [tag |-> "Ok", val |-> v]
Err(kind, name) == [tag |-> "Err", kind |-> kind, name |-> name]
IsOk(r) == r.tag = "Ok"
IsErr(r, kind) == r.tag = "Err" /\ r.kind = kind
Unit == "()"

\* the MetadataError kinds of the layer
ErrorKinds == {"DatabaseNotExists", "TableNotExists", "ColumnNotExists",
               "DatabaseAlreadyExists", "ColumnAlreadyExists",
               "InvalidColumnDrop", "External"}

(***************************** hash maps ***********************************)
MapEmpty == [x \in {} |-> x]
MapHas(m, k) == k \in DOMAIN m
MapInsert(m, k, v) == [x \in (DOMAIN m) \cup {k} |-> IF x = k THEN v ELSE m[x]]
MapRemove(m, k) == [x \in (DOMAIN m) \ {k} |-> m[x]]

(***************************** schemas *************************************)
\* TableColumn of a native table: name, semantic role and data type
TableColumn(n, role, type) == [name |-> n, role |-> role, type |-> type]
TimeColumn == TableColumn("time", "time", "timestamp")
FieldColumn(n, type) == TableColumn(n, "field", type)
ColumnNames == {"time", "f1", "f2"}
\* the columns a caller passes to alter_table_add_column
AddColumns == {FieldColumn("f1", "i32"), FieldColumn("f2", "i32")}
\* the (column_name, new_column) pairs a caller passes to alter_table_alter_column
AlterColumns == {<<"f1", FieldColumn("f1", "i64")>>, <<"f2", FieldColumn("f2", "i32")>>}

TsKvTableSchema(cols) == [kind |-> "TsKvTableSchema", columns |-> cols]
ExternalTableSchema(location, file_type) ==
    [kind |-> "ExternalTableSchema", location |-> location, file_type |-> file_type]

GoodLocation == "file:///tmp/x.parquet"
BadLocation == "http://["
GoodFileType == "parquet"
BadFileType == "unknown"

\* the schemas a caller passes to create_table
NativeSchemas == {TsKvTableSchema({TimeColumn, FieldColumn("f1", "i32")}),
                  TsKvTableSchema({TimeColumn, FieldColumn("f1", "i32"), FieldColumn("f2", "i32")})}
ExternalSchemas == {ExternalTableSchema(GoodLocation, GoodFileType),
                    ExternalTableSchema(BadLocation, GoodFileType),
                    ExternalTableSchema(GoodLocation, BadFileType)}
TableSchemas == NativeSchemas \cup ExternalSchemas

\* the table a reference names
TableOfRef(n) == <<n[Len(n)]>>
\* the second table is a bystander: it is created with one schema, dropped,
\* and never altered
Bystander == <<"u">>
CreateInputs == {<<n, ts>> \in Refs \X TableSchemas :
                    TableOfRef(n) = Bystander =>
                        ts = TsKvTableSchema({TimeColumn, FieldColumn("f1", "i32")})}
AlterRefs == {n \in Refs : TableOfRef(n) # Bystander}

\* DatabaseSchema: the name and the storage options of a database
DatabaseOptions == {"default", "custom"}
DatabaseSchema(name, options) == [name |-> name, options |-> options]
DatabaseSchema_new(name) == DatabaseSchema(name, "default")

(***************************** name resolution *****************************)
\* TableReference::from(&str): split on '.', one to three parts
from_str(s) ==
    CASE Len(s) = 1 -> [shape |-> "Bare", table |-> s]
      [] Len(s) = 2 -> [shape |-> "Partial", schema |-> <<s[1]>>, table |-> <<s[2]>>]
      [] Len(s) = 3 -> [shape |-> "Full", catalog |-> <<s[1]>>, schema |-> <<s[2]>>,
                        table |-> <<s[3]>>]
      [] OTHER -> [shape |-> "Bare", table |-> s]

\* TableReference::table()
table_of(ref) == ref.table

\* TableReference::resolve(default_catalog, default_schema)
resolve(ref, default_catalog, default_schema) ==
    CASE ref.shape = "Full" ->
            [catalog |-> ref.catalog, schema |-> ref.schema, table |-> ref.table]
      [] ref.shape = "Partial" ->
            [catalog |-> default_catalog, schema |-> ref.schema, table |-> ref.table]
      [] OTHER ->
            [catalog |-> default_catalog, schema |-> default_schema, table |-> ref.table]

(***************************** storage engine ******************************)
\* The engine keeps the persisted DatabaseSchema of each database.  Its
\* alter_database and its column operations answer with success or an error;
\* when they fail is the engine's own matter, so the answer is an input of the
\* facade call (engine_ok).
Engine_new == MapEmpty
get_db_schema(e, name) == IF MapHas(e, name) THEN Ok(e[name]) ELSE Err("None", name)

\* Engine::alter_database(&schema): an engine-side update of the schema the
\* engine holds under that name; it adds no database
engine_alter_database(e, schema, engine_ok) ==
    IF ~engine_ok THEN [res |-> Err("EngineError", schema.name), engine |-> e]
    ELSE [res |-> Ok(Unit),
          engine |-> IF MapHas(e, schema.name) THEN MapInsert(e, schema.name, schema) ELSE e]

(***************************** Database object *****************************)
\* Database::new(name, engine, schema): no table yet
Database_new(name, schema) == [schema |-> schema, tables |-> MapEmpty]

\* Database::table(name): the schema or a miss
Database_table(db, name) ==
    IF MapHas(db.tables, name) THEN Ok(db.tables[name]) ELSE Err("None", name)

\* Database::register_table(name, schema): insert, overwriting silently
register_table(db, name, schema) ==
    [res |-> Ok(Unit), db |-> [db EXCEPT !.tables = MapInsert(db.tables, name, schema)]]

\* Database::deregister_table(name): the removed entry or TableNotExists
deregister_table(db, name) ==
    IF MapHas(db.tables, name)
    THEN [res |-> Ok(db.tables[name]), db |-> [db EXCEPT !.tables = MapRemove(db.tables, name)]]
    ELSE [res |-> Err("TableNotExists", name), db |-> db]

\* Database::table_names()
table_names(db) == DOMAIN db.tables

ColumnNamesOf(schema) == {c.name : c \in schema.columns}
ColumnNamed(schema, n) == CHOOSE c \in schema.columns : c.name = n
FieldsOf(schema) == {c \in schema.columns : c.role = "field"}

\* Column alteration is described for native tables only; a call that reaches
\* an external-listing table is not explored.
NotModelled(db) == [res |-> [tag |-> "NotModelled"], db |-> db]
Modelled(r) == r.res.tag # "NotModelled"

\* the column operations as they would be had the in-memory schema been
\* replaced before the engine answered
AlterTable_before_engine(db, table, err, engine_ok, new_columns) ==
    IF err # "" THEN [res |-> Err(err, table), db |-> db]
    ELSE [res |-> IF engine_ok THEN Ok(Unit) ELSE Err("External", table),
          db |-> [db EXCEPT !.tables = MapInsert(db.tables, table, TsKvTableSchema(new_columns))]]

\* what the three column operations share: the table is looked up, `check`
\* decides on the schema, the engine is asked, and only then is the in-memory
\* schema replaced
AlterTable(db, table, err, engine_ok, new_columns) ==
    IF err # "" THEN [res |-> Err(err, table), db |-> db]
    ELSE IF ~engine_ok THEN [res |-> Err("External", table), db |-> db]
    ELSE [res |-> Ok(Unit),
          db |-> [db EXCEPT !.tables = MapInsert(db.tables, table, TsKvTableSchema(new_columns))]]

\* Database::table_add_column(table, column)
table_add_column(db, table, column, engine_ok) ==
    IF ~MapHas(db.tables, table) THEN [res |-> Err("TableNotExists", table), db |-> db]
    ELSE IF db.tables[table].kind # "TsKvTableSchema" THEN NotModelled(db)
    ELSE LET ts == db.tables[table] IN
         AlterTable(db, table,
                    IF column.name \in ColumnNamesOf(ts) THEN "ColumnAlreadyExists" ELSE "",
                    engine_ok, ts.columns \cup {column})

\* Database::table_alter_column(table, column_name, new_column)
table_alter_column(db, table, column_name, new_column, engine_ok) ==
    IF ~MapHas(db.tables, table) THEN [res |-> Err("TableNotExists", table), db |-> db]
    ELSE IF db.tables[table].kind # "TsKvTableSchema" THEN NotModelled(db)
    ELSE LET ts == db.tables[table] IN
         AlterTable(db, table,
                    IF column_name \notin ColumnNamesOf(ts) THEN "ColumnNotExists" ELSE "",
                    engine_ok,
                    {c \in ts.columns : c.name # column_name} \cup {new_column})

\* Database::table_drop_column(table, column_name): the time column and the
\* last field column stay
table_drop_column(db, table, column_name, engine_ok) ==
    IF ~MapHas(db.tables, table) THEN [res |-> Err("TableNotExists", table), db |-> db]
    ELSE IF db.tables[table].kind # "TsKvTableSchema" THEN NotModelled(db)
    ELSE LET ts == db.tables[table] IN
         AlterTable(db, table,
                    IF column_name \notin ColumnNamesOf(ts) THEN "ColumnNotExists"
                    ELSE IF ColumnNamed(ts, column_name).role = "time"
                            \/ FieldsOf(ts) = {ColumnNamed(ts, column_name)}
                         THEN "InvalidColumnDrop"
                         ELSE "",
                    engine_ok,
                    {c \in ts.columns : c.name # column_name})

(***************************** catalog registry ****************************)
\* A state of the program outside the facades: the engine and the registries.
\* st.catalogs[i] is one UserCatalog: database name -> Database.

\* UserCatalog::new(engine): the databases the engine already holds are
\* registered, without tables
UserCatalog_new(e) == [n \in DOMAIN e |-> Database_new(n, e[n])]

\* UserCatalog::schema(name): the database object or a miss
schema(cat, name) == IF MapHas(cat, name) THEN Ok(cat[name]) ELSE Err("None", name)

\* UserCatalog::schema_names()
schema_names(cat) == DOMAIN cat

\* UserCatalog::register_schema(name, database) on registry i: fails if the
\* name is present, otherwise inserts
register_schema(st, i, name, db) ==
    IF MapHas(st.catalogs[i], name)
    THEN [res |-> Err("DatabaseAlreadyExists", name), st |-> st]
    ELSE [res |-> Ok(Unit),
          st |-> [st EXCEPT !.catalogs[i] = MapInsert(@, name, db)]]

\* UserCatalog::deregister_schema(name) on registry i: the database goes, and
\* its tables with it
deregister_schema(st, i, name) ==
    IF ~MapHas(st.catalogs[i], name)
    THEN [res |-> Err("DatabaseNotExists", name), st |-> st]
    ELSE [res |-> Ok(st.catalogs[i][name]),
          st |-> [st EXCEPT !.catalogs[i] = MapRemove(@, name)]]

\* a Database object of registry i changed in place (it is shared by Arc)
StoreDatabase(st, i, name, db) ==
    [st EXCEPT !.catalogs[i] = MapInsert(@, name, db)]

(***************************** LocalCatalogMeta ****************************)
\* A facade: the context pair and the registry it shares (the engine and the
\* function registry are the same for every facade).
LocalCatalogMeta(c, d, i) == [catalog_name |-> c, database_name |-> d, catalog |-> i]

State(e, cs) == [engine |-> e, catalogs |-> cs]
Outcome(r, st) == [res |-> r, st |-> st]
\* .map(|_| ())
MapUnit(r) == IF IsOk(r) THEN Ok(Unit) ELSE r

None == [none |-> TRUE]
Some(v) == [some |-> v]

catalog_name(f) == f.catalog_name
schema_name(f) == f.database_name

\* with_catalog as it would be had it kept the catalog of the original
with_catalog_ignored(f, name) == f
with_catalog(f, name) == [f EXCEPT !.catalog_name = name]
\* with_database as it would be had the wrong field been rebound
with_database_rebinds_catalog(f, database) == [f EXCEPT !.catalog_name = database]
with_database(f, database) == [f EXCEPT !.database_name = database]

\* table as it would be had it looked in the current database whatever the
\* reference says
table_in_current_database(st, f, table_ref) ==
    LET name == resolve(table_ref, catalog_name(f), schema_name(f))
        db == schema(st.catalogs[f.catalog], schema_name(f))
    IN  IF ~IsOk(db) THEN Err("DatabaseNotExists", schema_name(f))
        ELSE LET t == Database_table(db.val, name.table)
             IN  IF IsOk(t) THEN t ELSE Err("TableNotExists", name.table)

\* table as it would be had it looked for the resolved catalog first
table_checks_catalog(st, f, table_ref) ==
    LET name == resolve(table_ref, catalog_name(f), schema_name(f))
        db == schema(st.catalogs[f.catalog], name.schema)
    IN  IF name.catalog # DEFAULT_CATALOG THEN Err("CatalogNotExists", name.catalog)
        ELSE IF ~IsOk(db) THEN Err("DatabaseNotExists", name.schema)
        ELSE LET t == Database_table(db.val, name.table)
             IN  IF IsOk(t) THEN t ELSE Err("TableNotExists", name.table)

\* MetaData::table(TableReference)
table(st, f, table_ref) ==
    LET name == resolve(table_ref, catalog_name(f), schema_name(f))
        db == schema(st.catalogs[f.catalog], name.schema)
    IN  IF ~IsOk(db) THEN Err("DatabaseNotExists", name.schema)
        ELSE LET t == Database_table(db.val, name.table)
             IN  IF IsOk(t) THEN t ELSE Err("TableNotExists", name.table)

\* MetaData::database(name): answered by the engine
database(st, f, name) ==
    LET r == get_db_schema(st.engine, name)
    IN  IF IsOk(r) THEN r ELSE Err("DatabaseNotExists", name)

\* drop_table as it would be had it deregistered the name as it was passed
drop_table_raw_name(st, f, name) ==
    LET n == resolve(from_str(name), f.catalog_name, f.database_name)
        db == schema(st.catalogs[f.catalog], n.schema)
    IN  IF ~IsOk(db) THEN Outcome(Err("DatabaseNotExists", n.schema), st)
        ELSE LET r == deregister_table(db.val, name)
             IN  Outcome(MapUnit(r.res), StoreDatabase(st, f.catalog, n.schema, r.db))

drop_table(st, f, name) ==
    LET n == resolve(from_str(name), f.catalog_name, f.database_name)
        db == schema(st.catalogs[f.catalog], n.schema)
    IN  IF ~IsOk(db) THEN Outcome(Err("DatabaseNotExists", n.schema), st)
        ELSE LET r == deregister_table(db.val, n.table)
             IN  Outcome(MapUnit(r.res), StoreDatabase(st, f.catalog, n.schema, r.db))

\* drop_database as it would be had it dropped the current database
drop_database_current(st, f, name) ==
    LET r == deregister_schema(st, f.catalog, f.database_name)
    IN  Outcome(MapUnit(r.res), r.st)

\* drop_database as it would be had it dropped the engine's database and left
\* the registry alone
drop_database_engine_only(st, f, name) ==
    IF MapHas(st.catalogs[f.catalog], name)
    THEN Outcome(Ok(Unit), [st EXCEPT !.engine = MapRemove(@, name)])
    ELSE Outcome(Err("DatabaseNotExists", name), st)

drop_database(st, f, name) ==
    LET r == deregister_schema(st, f.catalog, name)
    IN  Outcome(MapUnit(r.res), r.st)

\* create_table as it would be had it registered the table under the name as
\* it was passed
create_table_raw_name(st, f, name, table_schema) ==
    LET tr == from_str(name)
        table_ref == resolve(tr, f.catalog_name, f.database_name)
        db == schema(st.catalogs[f.catalog], table_ref.schema)
    IN  IF ~IsOk(db) THEN Outcome(Err("DatabaseNotExists", table_ref.schema), st)
        ELSE LET r == register_table(db.val, name, table_schema)
             IN  Outcome(MapUnit(r.res), StoreDatabase(st, f.catalog, table_ref.schema, r.db))

\* create_table as it would be had it refused a name that is registered
create_table_if_absent(st, f, name, table_schema) ==
    LET tr == from_str(name)
        table_ref == resolve(tr, f.catalog_name, f.database_name)
        db == schema(st.catalogs[f.catalog], table_ref.schema)
    IN  IF ~IsOk(db) THEN Outcome(Err("DatabaseNotExists", table_ref.schema), st)
        ELSE IF MapHas(db.val.tables, table_of(tr))
        THEN Outcome(Err("TableAlreadyExists", table_of(tr)), st)
        ELSE LET r == register_table(db.val, table_of(tr), table_schema)
             IN  Outcome(MapUnit(r.res), StoreDatabase(st, f.catalog, table_ref.schema, r.db))

create_table(st, f, name, table_schema) ==
    LET tr == from_str(name)
        table_ref == resolve(tr, f.catalog_name, f.database_name)
        db == schema(st.catalogs[f.catalog], table_ref.schema)
    IN  IF ~IsOk(db) THEN Outcome(Err("DatabaseNotExists", table_ref.schema), st)
        ELSE LET r == register_table(db.val, table_of(tr), table_schema)
             IN  Outcome(MapUnit(r.res), StoreDatabase(st, f.catalog, table_ref.schema, r.db))

\* create_database as it would be had it replaced a database of that name
create_database_replaces(st, f, name, db_schema) ==
    LET user_schema == Database_new(name, db_schema)
        r == register_schema(deregister_schema(st, f.catalog, name).st, f.catalog, name,
                             user_schema)
    IN  Outcome(MapUnit(r.res), r.st)

create_database(st, f, name, db_schema) ==
    LET user_schema == Database_new(name, db_schema)
        r == register_schema(st, f.catalog, name, user_schema)
    IN  Outcome(MapUnit(r.res), r.st)

database_names(st, f) == Ok(schema_names(st.catalogs[f.catalog]))

show_tables(st, f, name) ==
    LET db_name == IF name = None THEN f.database_name ELSE name.some
        db == schema(st.catalogs[f.catalog], db_name)
    IN  IF ~IsOk(db) THEN Err("DatabaseNotExists", db_name)
        ELSE Ok(table_names(db.val))

\* the engine alone is asked; its error is wrapped in External
alter_database(st, f, db_schema, engine_ok) ==
    LET r == engine_alter_database(st.engine, db_schema, engine_ok)
    IN  Outcome(IF IsOk(r.res) THEN r.res ELSE Err("External", r.res.name),
                [st EXCEPT !.engine = r.engine])

alter_table_add_column(st, f, table_name, column, engine_ok) ==
    LET table_ref == resolve(from_str(table_name), f.catalog_name, f.database_name)
        db == schema(st.catalogs[f.catalog], table_ref.schema)
    IN  IF ~IsOk(db) THEN Outcome(Err("DatabaseNotExists", table_ref.schema), st)
        ELSE LET r == table_add_column(db.val, table_ref.table, column, engine_ok)
             IN  Outcome(r.res, StoreDatabase(st, f.catalog, table_ref.schema, r.db))

alter_table_alter_column(st, f, table_name, column_name, new_column, engine_ok) ==
    LET table_ref == resolve(from_str(table_name), f.catalog_name, f.database_name)
        db == schema(st.catalogs[f.catalog], table_ref.schema)
    IN  IF ~IsOk(db) THEN Outcome(Err("DatabaseNotExists", table_ref.schema), st)
        ELSE LET r == table_alter_column(db.val, table_ref.table, column_name, new_column,
                                         engine_ok)
             IN  Outcome(r.res, StoreDatabase(st, f.catalog, table_ref.schema, r.db))

\* the database is the resolved one; the table is looked up under table_name
\* as it was passed
alter_table_drop_column(st, f, table_name, column_name, engine_ok) ==
    LET table_ref == resolve(from_str(table_name), f.catalog_name, f.database_name)
        db == schema(st.catalogs[f.catalog], table_ref.schema)
    IN  IF ~IsOk(db) THEN Outcome(Err("DatabaseNotExists", table_ref.schema), st)
        ELSE LET r == table_drop_column(db.val, table_name, column_name, engine_ok)
             IN  Outcome(r.res, StoreDatabase(st, f.catalog, table_ref.schema, r.db))

\* what new_with_default makes of create_database's answer
swallow_already_exists(r) ==
    IF IsOk(r) \/ IsErr(r, "DatabaseAlreadyExists") THEN Ok(Unit) ELSE r

\* new_with_default as it would be had it returned every error of
\* create_database
new_with_default_strict(st) ==
    LET with_catalog_added == [st EXCEPT !.catalogs = Append(@, UserCatalog_new(st.engine))]
        meta == LocalCatalogMeta(DEFAULT_CATALOG, DEFAULT_DATABASE, Len(st.catalogs) + 1)
        r == create_database(with_catalog_added, meta, meta.database_name,
                             DatabaseSchema_new(meta.database_name))
    IN  IF IsOk(r.res)
        THEN [res |-> Ok(meta), st |-> r.st, created |-> r.res]
        ELSE [res |-> r.res, st |-> [r.st EXCEPT !.catalogs = st.catalogs], created |-> r.res]

\* LocalCatalogMeta::new_with_default(engine, func_manager): a new registry
\* over the engine; on an error the facade and its registry are dropped
new_with_default(st) ==
    LET with_catalog_added == [st EXCEPT !.catalogs = Append(@, UserCatalog_new(st.engine))]
        meta == LocalCatalogMeta(DEFAULT_CATALOG, DEFAULT_DATABASE, Len(st.catalogs) + 1)
        r == create_database(with_catalog_added, meta, meta.database_name,
                             DatabaseSchema_new(meta.database_name))
    IN  IF IsOk(swallow_already_exists(r.res))
        THEN [res |-> Ok(meta), st |-> r.st, created |-> r.res]
        ELSE [res |-> r.res, st |-> [r.st EXCEPT !.catalogs = st.catalogs], created |-> r.res]

(***************************** MetadataProvider ****************************)
\* ListingTableUrl::parse(location)
ListingTableUrl_parse(location) ==
    IF location = BadLocation THEN Err("DataFusionError", location) ELSE Ok(location)
\* ExternalTableSchema::table_options()
table_options(ts) ==
    IF ts.file_type = BadFileType THEN Err("DataFusionError", ts.file_type)
    ELSE Ok(ts.file_type)

\* get_table_provider as it would be had it built the listing table without
\* looking at what the URL parse and table_options returned
get_table_provider_unchecked(st, f, name) ==
    LET t == table(st, f, name) IN
    IF IsOk(t)
    THEN IF t.val.kind = "TsKvTableSchema"
         THEN Ok([source |-> "ClusterTable", schema |-> t.val])
         ELSE Ok([source |-> "ListingTable", schema |-> t.val])
    ELSE LET resolved_name == resolve(name, catalog_name(f), schema_name(f))
         IN  Err("Plan", <<resolved_name.catalog, resolved_name.schema, resolved_name.table>>)

\* get_table_provider as it would be had it passed on the error of table()
get_table_provider_raw_error(st, f, name) ==
    LET t == table(st, f, name) IN
    IF IsOk(t)
    THEN IF t.val.kind = "TsKvTableSchema"
         THEN Ok([source |-> "ClusterTable", schema |-> t.val])
         ELSE LET table_path == ListingTableUrl_parse(t.val.location)
                  options == table_options(t.val)
              IN  IF ~IsOk(table_path) THEN table_path
                  ELSE IF ~IsOk(options) THEN options
                  ELSE Ok([source |-> "ListingTable", schema |-> t.val])
    ELSE Err("Plan", <<t.name>>)

\* ContextProvider::get_table_provider(TableReference)
get_table_provider(st, f, name) ==
    LET t == table(st, f, name) IN
    IF IsOk(t)
    THEN IF t.val.kind = "TsKvTableSchema"
         THEN Ok([source |-> "ClusterTable", schema |-> t.val])
         ELSE LET table_path == ListingTableUrl_parse(t.val.location)
                  options == table_options(t.val)
              IN  IF ~IsOk(table_path) THEN table_path
                  ELSE IF ~IsOk(options) THEN options
                  ELSE Ok([source |-> "ListingTable", schema |-> t.val])
    ELSE LET resolved_name == resolve(name, catalog_name(f), schema_name(f))
         IN  Err("Plan", <<resolved_name.catalog, resolved_name.schema, resolved_name.table>>)

(***************************** the state machine ***************************)
St == State(engine, catalogs)

\* one thread, no stream: nothing is in flight
NoThreads == <<>>
NoStream == [made |-> None, polled |-> <<>>]
Sequential ==
    /\ inflight = NoThreads
    /\ ids = MapEmpty
    /\ orphans = MapEmpty
    /\ stream = NoStream

\* A facade is an immutable value, and with_catalog / with_database make any
\* context from any facade without touching the state: the facades there can
\* be are every context over every registry built so far.
Contexts(i) == {LocalCatalogMeta(c, d, i) : c \in CatalogNames, d \in DatabaseNames}
facades == UNION {Contexts(i) : i \in DOMAIN catalogs}
ResKind(r) == IF IsOk(r) THEN "Ok" ELSE r.kind

\* an operation ran and returned: its effect on the engine and the registries
Returns(op, out) ==
    /\ engine' = out.st.engine
    /\ catalogs' = out.st.catalogs
    /\ last' = [op |-> op, res |-> ResKind(out.res)]
    /\ UNCHANGED <<inflight, ids, orphans, stream>>

\* the server after start-up: one new_with_default on a new engine
Init ==
    LET out == new_with_default(State(Engine_new, <<>>)) IN
    /\ engine = out.st.engine
    /\ catalogs = out.st.catalogs
    /\ last = [op |-> "new_with_default", res |-> ResKind(out.res)]
    /\ Sequential

\* with_catalog and with_database change nothing: they return a new facade
WithCatalog(f, c) ==
    /\ last' = [op |-> "with_catalog", res |-> "Ok", val |-> with_catalog(f, c)]
    /\ UNCHANGED <<engine, catalogs, inflight, ids, orphans, stream>>

WithDatabase(f, d) ==
    /\ last' = [op |-> "with_database", res |-> "Ok", val |-> with_database(f, d)]
    /\ UNCHANGED <<engine, catalogs, inflight, ids, orphans, stream>>

\* a create_table that found the name registered is recorded as such
CreateTable(f, name, ts) ==
    LET out == create_table(St, f, name, ts) IN
    /\ engine' = out.st.engine
    /\ catalogs' = out.st.catalogs
    /\ last' = IF IsOk(out.res) /\ IsOk(table(St, f, from_str(name)))
               THEN [op |-> "create_table", res |-> "Ok", replaced |-> TRUE]
               ELSE [op |-> "create_table", res |-> ResKind(out.res)]
    /\ UNCHANGED <<inflight, ids, orphans, stream>>

DropTable(f, name) ==
    /\ Returns("drop_table", drop_table(St, f, name))

\* the name and the DatabaseSchema are two arguments; nothing ties the
\* schema's own name to `name`
CreateDatabase(f, name, db_schema) ==
    /\ Returns("create_database", create_database(St, f, name, db_schema))

\* a drop_database that took tables with it is recorded as such
DropDatabase(f, name) ==
    LET out == drop_database(St, f, name) IN
    /\ engine' = out.st.engine
    /\ catalogs' = out.st.catalogs
    /\ last' = IF IsOk(out.res) /\ show_tables(St, f, Some(name)).val # {}
               THEN [op |-> "drop_database", res |-> "Ok", with_tables |-> TRUE]
               ELSE [op |-> "drop_database", res |-> ResKind(out.res)]
    /\ UNCHANGED <<inflight, ids, orphans, stream>>

AlterDatabase(f, db_schema, engine_ok) ==
    /\ Returns("alter_database", alter_database(St, f, db_schema, engine_ok))

AlterTableAddColumn(f, name, column, engine_ok) ==
    LET out == alter_table_add_column(St, f, name, column, engine_ok) IN
    /\ Modelled(out)
    /\ Returns("alter_table_add_column", out)

AlterTableAlterColumn(f, name, column_name, new_column, engine_ok) ==
    LET out == alter_table_alter_column(St, f, name, column_name, new_column, engine_ok) IN
    /\ Modelled(out)
    /\ Returns("alter_table_alter_column", out)

AlterTableDropColumn(f, name, column_name, engine_ok) ==
    LET out == alter_table_drop_column(St, f, name, column_name, engine_ok) IN
    /\ Modelled(out)
    /\ Returns("alter_table_drop_column", out)

Next ==
    \/ \E f \in facades, c \in CatalogNames : WithCatalog(f, c)
    \/ \E f \in facades, d \in DatabaseNames : WithDatabase(f, d)
    \/ \E f \in facades, i \in CreateInputs : CreateTable(f, i[1], i[2])
    \/ \E f \in facades, n \in Refs : DropTable(f, n)
    \/ \E f \in facades, d \in DatabaseNames : CreateDatabase(f, d, DatabaseSchema_new(d))
    \/ \E f \in facades, d \in DatabaseNames : DropDatabase(f, d)
    \/ \E f \in facades, n \in AlterRefs, c \in AddColumns, ok \in BOOLEAN :
          AlterTableAddColumn(f, n, c, ok)
    \/ \E f \in facades, n \in AlterRefs, a \in AlterColumns, ok \in BOOLEAN :
          AlterTableAlterColumn(f, n, a[1], a[2], ok)
    \/ \E f \in facades, n \in AlterRefs, c \in ColumnNames, ok \in BOOLEAN :
          AlterTableDropColumn(f, n, c, ok)

Spec == Init /\ [][Next]_vars

(***************************** restarts ************************************)
\* The engine outlives the facade: it may already hold databases when
\* new_with_default runs, and new_with_default may run again on it.
InitBoot ==
    /\ \E persisted \in SUBSET DatabaseNames :
          engine = [n \in persisted |-> DatabaseSchema_new(n)]
    /\ catalogs = <<>>
    /\ last = [op |-> "engine", res |-> "Ok"]
    /\ Sequential

NewWithDefault ==
    LET out == new_with_default(St) IN
    /\ Len(catalogs) < MaxCatalogs
    /\ engine' = out.st.engine
    /\ catalogs' = out.st.catalogs
    /\ last' = [op |-> "new_with_default", res |-> ResKind(out.res),
                created |-> ResKind(out.created)]
    /\ UNCHANGED <<inflight, ids, orphans, stream>>

NextBoot ==
    \/ NewWithDefault
    \/ \E f \in facades, d \in DatabaseNames, o \in DatabaseOptions :
          CreateDatabase(f, d, DatabaseSchema(d, o))
    \/ \E f \in facades, d \in DatabaseNames : DropDatabase(f, d)
    \/ \E f \in facades, d \in DatabaseNames, o \in DatabaseOptions, ok \in BOOLEAN :
          AlterDatabase(f, DatabaseSchema(d, o), ok)

SpecBoot == InitBoot /\ [][NextBoot]_vars

(***************************** database options ****************************)
\* One registry over an engine that may already hold databases, with the
\* database-level calls in full: create_database is given a name and a schema
\* that carries a name of its own, databases are altered and dropped, and hold
\* tables.
DbTables == {<<n, TsKvTableSchema({TimeColumn, FieldColumn("f1", "i32")})>> : n \in PartialRefs}
DbSchemas == {DatabaseSchema(n, o) : n \in DatabaseNames, o \in DatabaseOptions}

InitDb ==
    /\ \E persisted \in SUBSET DatabaseNames :
          LET out == new_with_default(State([n \in persisted |-> DatabaseSchema_new(n)], <<>>)) IN
          /\ engine = out.st.engine
          /\ catalogs = out.st.catalogs
          /\ last = [op |-> "new_with_default", res |-> ResKind(out.res)]
    /\ Sequential

NextDb ==
    \/ \E f \in facades, d \in DatabaseNames, s \in DbSchemas : CreateDatabase(f, d, s)
    \/ \E f \in facades, d \in DatabaseNames : DropDatabase(f, d)
    \/ \E f \in facades, s \in DbSchemas, ok \in BOOLEAN : AlterDatabase(f, s, ok)
    \/ \E f \in facades, i \in DbTables : CreateTable(f, i[1], i[2])

SpecDb == InitDb /\ [][NextDb]_vars

(***************************** parallel threads ****************************)
\* The facade may be called from parallel threads.  A method that works on a
\* table reads the registry first (self.catalog.schema(..) returns the shared
\* Database object, an Arc) and calls that object second; each of the two is
\* atomic under its own lock, and other threads may run between them.
\* drop_database, create_database and database_names are one registry call.

\* most calls that are between their two accesses at once
MaxCalls == 2
Calls == 1 .. MaxCalls
Idle == [op |-> "idle"]
\* the facade the threads share
Meta == LocalCatalogMeta(DEFAULT_CATALOG, DEFAULT_DATABASE, 1)
ConcSchema == TsKvTableSchema({TimeColumn, FieldColumn("f1", "i32")})
ConcColumn == FieldColumn("f2", "i32")
\* the (column_name, new_column) pair the threads pass to
\* alter_table_alter_column
ConcAlter == <<"f2", FieldColumn("f2", "i32")>>
\* the names the threads pass: one table in each database
ConcRefs == {Dot(d, <<"t">>) : d \in DatabaseNames}
\* the name the threads pass to alter_table_alter_column and
\* alter_table_drop_column: the table of the current database
ConcColumnRefs == {<<"t">>}

\* Arc<Database>: the name it was registered under and its identity
Handle(name, id) == [name |-> name, id |-> id]
\* the object is the one registered under its name now
Live(h) == MapHas(catalogs[1], h.name) /\ ids[h.name] = h.id
Deref(h) == IF Live(h) THEN catalogs[1][h.name] ELSE orphans[h]
Held(cs) == {cs[p].handle : p \in {q \in DOMAIN cs : cs[q] # Idle}}
\* an identity no in-flight call holds for that name
FreshId(cs, name) ==
    CHOOSE i \in 1 .. (MaxCalls + 1) :
        /\ Handle(name, i) \notin Held(cs)
        /\ \A j \in 1 .. (i - 1) : Handle(name, j) \in Held(cs)

\* history of a listing call: what the registry held for its database at
\* each instant since the call started
Snapshot(cat, d) ==
    IF MapHas(cat, d) THEN Ok(table_names(cat[d])) ELSE Err("DatabaseNotExists", d)
Watch(cs, cat) ==
    [p \in DOMAIN cs |->
        IF cs[p].op = "show_tables"
        THEN [cs[p] EXCEPT !.seen = @ \cup {Snapshot(cat, cs[p].handle.name)}]
        ELSE cs[p]]

\* first access: self.catalog.schema(db).ok_or_else(DatabaseNotExists)?
FirstStep(p, op, d, t) ==
    /\ inflight[p] = Idle
    /\ \A q \in 1 .. (p - 1) : inflight[q] # Idle
    /\ LET db == schema(catalogs[1], d) IN
       IF ~IsOk(db)
       THEN /\ last' = [op |-> op, res |-> "DatabaseNotExists"]
            /\ UNCHANGED inflight
       ELSE /\ inflight' = Watch([inflight EXCEPT ![p] =
                                     [op |-> op, handle |-> Handle(d, ids[d]),
                                      table |-> t, seen |-> {}]],
                                 catalogs[1])
            /\ UNCHANGED last
    /\ UNCHANGED <<engine, catalogs, ids, orphans, stream>>

\* second access: the call on the Database object fetched before
SecondStep(c, db) ==
    CASE c.op = "create_table" ->
            LET r == register_table(db, c.table, ConcSchema)
            IN  [res |-> MapUnit(r.res), db |-> r.db]
      [] c.op = "drop_table" ->
            LET r == deregister_table(db, c.table)
            IN  [res |-> MapUnit(r.res), db |-> r.db]
      [] c.op = "alter_table_add_column" ->
            table_add_column(db, c.table, ConcColumn, TRUE)
      [] c.op = "alter_table_alter_column" ->
            table_alter_column(db, c.table, ConcAlter[1], ConcAlter[2], TRUE)
      [] c.op = "alter_table_drop_column" ->
            table_drop_column(db, c.table, ConcColumn.name, TRUE)
      [] c.op = "show_tables" ->
            [res |-> Ok(table_names(db)), db |-> db]

BeginCreateTable(p, n) ==
    LET tr == from_str(n)
        table_ref == resolve(tr, Meta.catalog_name, Meta.database_name)
    IN  FirstStep(p, "create_table", table_ref.schema, table_of(tr))

BeginDropTable(p, n) ==
    LET name == resolve(from_str(n), Meta.catalog_name, Meta.database_name)
    IN  FirstStep(p, "drop_table", name.schema, name.table)

BeginAddColumn(p, n) ==
    LET table_ref == resolve(from_str(n), Meta.catalog_name, Meta.database_name)
    IN  FirstStep(p, "alter_table_add_column", table_ref.schema, table_ref.table)

BeginAlterColumn(p, n) ==
    LET table_ref == resolve(from_str(n), Meta.catalog_name, Meta.database_name)
    IN  FirstStep(p, "alter_table_alter_column", table_ref.schema, table_ref.table)

\* the Database is asked for the table under the name as it was passed
BeginDropColumn(p, n) ==
    LET table_ref == resolve(from_str(n), Meta.catalog_name, Meta.database_name)
    IN  FirstStep(p, "alter_table_drop_column", table_ref.schema, n)

BeginShowTables(p, d) ==
    FirstStep(p, "show_tables", d, <<>>)

\* the second access runs and the call returns; an object no call holds any
\* more is freed
Finish(p) ==
    /\ inflight[p] # Idle
    /\ LET c == inflight[p]
           out == SecondStep(c, Deref(c.handle))
           rest == [inflight EXCEPT ![p] = Idle]
           kept == IF Live(c.handle) THEN orphans ELSE MapInsert(orphans, c.handle, out.db)
       IN  /\ catalogs' = IF Live(c.handle)
                          THEN [catalogs EXCEPT ![1] = MapInsert(@, c.handle.name, out.db)]
                          ELSE catalogs
           /\ orphans' = [h \in (DOMAIN kept) \cap Held(rest) |-> kept[h]]
           /\ inflight' = Watch(rest, catalogs'[1])
           /\ last' = [op |-> c.op, res |-> ResKind(out.res)]
    /\ UNCHANGED <<engine, ids, stream>>

ConcDropDatabase(d) ==
    LET out == drop_database(St, Meta, d) IN
    /\ engine' = out.st.engine
    /\ catalogs' = out.st.catalogs
    /\ IF IsOk(out.res)
       THEN /\ ids' = MapRemove(ids, d)
            /\ orphans' = IF Handle(d, ids[d]) \in Held(inflight)
                          THEN MapInsert(orphans, Handle(d, ids[d]), catalogs[1][d])
                          ELSE orphans
       ELSE UNCHANGED <<ids, orphans>>
    /\ inflight' = Watch(inflight, catalogs'[1])
    /\ last' = [op |-> "drop_database", res |-> ResKind(out.res)]
    /\ UNCHANGED stream

ConcCreateDatabase(d) ==
    LET out == create_database(St, Meta, d, DatabaseSchema_new(d)) IN
    /\ engine' = out.st.engine
    /\ catalogs' = out.st.catalogs
    /\ ids' = IF IsOk(out.res) THEN MapInsert(ids, d, FreshId(inflight, d)) ELSE ids
    /\ inflight' = Watch(inflight, catalogs'[1])
    /\ last' = [op |-> "create_database", res |-> ResKind(out.res)]
    /\ UNCHANGED <<orphans, stream>>

ConcDatabaseNames ==
    /\ last' = [op |-> "database_names", res |-> "Ok", val |-> database_names(St, Meta).val]
    /\ UNCHANGED <<engine, catalogs, inflight, ids, orphans, stream>>

InitConc ==
    LET out == new_with_default(State(Engine_new, <<>>)) IN
    /\ engine = out.st.engine
    /\ catalogs = out.st.catalogs
    /\ last = [op |-> "new_with_default", res |-> ResKind(out.res)]
    /\ inflight = [p \in Calls |-> Idle]
    /\ ids = [d \in DOMAIN out.st.catalogs[1] |-> 1]
    /\ orphans = MapEmpty
    /\ stream = NoStream

NextConc ==
    \/ \E p \in Calls, n \in ConcRefs : BeginCreateTable(p, n)
    \/ \E p \in Calls, n \in ConcRefs : BeginDropTable(p, n)
    \/ \E p \in Calls, n \in ConcRefs : BeginAddColumn(p, n)
    \/ \E p \in Calls, n \in ConcColumnRefs : BeginAlterColumn(p, n)
    \/ \E p \in Calls, n \in ConcColumnRefs : BeginDropColumn(p, n)
    \/ \E p \in Calls, d \in DatabaseNames : BeginShowTables(p, d)
    \/ \E p \in Calls : Finish(p)
    \/ \E d \in DatabaseNames : ConcDropDatabase(d)
    \/ \E d \in DatabaseNames : ConcCreateDatabase(d)
    \/ ConcDatabaseNames

SpecConc == InitConc /\ [][NextConc]_vars

(***************************** batch stream ********************************)
\* most batches handed to stream_from_batches, and most polls after the end
MaxBatches == 3
MaxEndPolls == 2
RecordBatches == {"b1", "b2", "b3"}
BatchLists == UNION {[1 .. n -> RecordBatches] : n \in 0 .. MaxBatches}

\* SizedRecordBatchStream::new(schema, batches, metrics): a cursor over the
\* batches
SizedRecordBatchStream_new(schema_ref, batches) ==
    [schema |-> schema_ref, batches |-> batches, index |-> 0]

\* SizedRecordBatchStream::poll_next: the batch under the cursor, or the end
poll_next(str) ==
    IF str.index < Len(str.batches)
    THEN [item |-> Some(str.batches[str.index + 1]), str |-> [str EXCEPT !.index = @ + 1]]
    ELSE [item |-> None, str |-> str]

\* the schema of a batch
batch_schema(b) == "schema"

\* stream_from_batches as it would be had it handed the batches over in
\* reverse
stream_from_batches_reversed(batches) ==
    IF batches = <<>> THEN Err("IndexOutOfBounds", 0)
    ELSE Ok(SizedRecordBatchStream_new(batch_schema(batches[1]),
                                       [i \in 1 .. Len(batches) |->
                                           batches[Len(batches) + 1 - i]]))

\* stream_from_batches(batches): batches[0] panics on an empty list
stream_from_batches(batches) ==
    IF batches = <<>> THEN Err("IndexOutOfBounds", 0)
    ELSE Ok(SizedRecordBatchStream_new(batch_schema(batches[1]), batches))

\* the caller keeps the list it passed (given) and what it has polled
InitStream ==
    /\ engine = Engine_new
    /\ catalogs = <<>>
    /\ inflight = NoThreads
    /\ ids = MapEmpty
    /\ orphans = MapEmpty
    /\ \E batches \in BatchLists :
          /\ stream = [made |-> stream_from_batches(batches), polled |-> <<>>]
          /\ last = [op |-> "stream_from_batches", res |-> ResKind(stream_from_batches(batches)),
                     given |-> batches]

PollNext ==
    /\ IsOk(stream.made)
    /\ Len(stream.polled) < Len(last.given) + MaxEndPolls
    /\ LET r == poll_next(stream.made.val) IN
       stream' = [made |-> Ok(r.str), polled |-> Append(stream.polled, r.item)]
    /\ UNCHANGED <<engine, catalogs, last, inflight, ids, orphans>>

NextStream == PollNext

SpecStream == InitStream /\ [][NextStream]_vars

(***************************** claims **************************************)
Registered(f) == schema_names(catalogs[f.catalog])

\* C1: for a registered database d, once create_table("d.t", s) has succeeded
\* table("d.t") returns exactly s, and once a following drop_table("d.t") has
\* succeeded table("d.t") fails with TableNotExists, seen from every facade over
\* the same registry.
C1_CreateDropTableRoundTrip ==
    \A f \in facades : \A d \in Registered(f), t \in TableNames, ts \in TableSchemas :
        LET n == Dot(d, t)
            created == create_table(St, f, n, ts)
            dropped == drop_table(created.st, f, n)
        IN  /\ IsOk(created.res)
            /\ \A g \in Contexts(f.catalog) : table(created.st, g, from_str(n)) = Ok(ts)
            /\ IsOk(dropped.res)
            /\ \A g \in Contexts(f.catalog) :
                  table(dropped.st, g, from_str(n)) = Err("TableNotExists", t)

\* a table was created and dropped again while another one stays registered
C1_Witness ==
    /\ last = [op |-> "drop_table", res |-> "Ok"]
    /\ \E f \in facades, n \in PartialRefs :
          /\ IsOk(table(St, f, from_str(n)))
          /\ \E m \in PartialRefs : IsErr(table(St, f, from_str(m)), "TableNotExists")

\* C2: for a name d that is not registered, once create_database(d, s) has
\* succeeded database_names() is the former names and d, and once a following
\* drop_database(d) has succeeded it is the former names again.
C2_DatabaseRoundTrip ==
    \A f \in facades : \A d \in DatabaseNames \ Registered(f), o \in DatabaseOptions :
        LET created == create_database(St, f, d, DatabaseSchema(d, o))
            dropped == drop_database(created.st, f, d)
        IN  /\ IsOk(created.res)
            /\ database_names(created.st, f) = Ok(Registered(f) \cup {d})
            /\ IsOk(dropped.res)
            /\ database_names(dropped.st, f) = Ok(Registered(f))

\* a database was dropped through a facade whose current database is another
\* one, and that one is still registered
C2_Witness ==
    /\ last = [op |-> "drop_database", res |-> "Ok"]
    /\ \E f \in facades : Registered(f) = {f.database_name}

\* C3: new_with_default succeeds whether or not DEFAULT_DATABASE exists: of the
\* errors of create_database it swallows DatabaseAlreadyExists and returns every
\* other; two calls in succession on one engine both succeed, and each leaves
\* DEFAULT_DATABASE registered and the context (DEFAULT_CATALOG,
\* DEFAULT_DATABASE).
C3_BootstrapIdempotent ==
    LET first == new_with_default(St)
        second == new_with_default(first.st)
        Good(out) ==
            /\ IsOk(out.res)
            /\ DEFAULT_DATABASE \in database_names(out.st, out.res.val).val
            /\ catalog_name(out.res.val) = DEFAULT_CATALOG
            /\ schema_name(out.res.val) = DEFAULT_DATABASE
    IN  /\ Good(first)
        /\ Good(second)
        /\ \A k \in ErrorKinds :
              swallow_already_exists(Err(k, DEFAULT_DATABASE))
                = IF k = "DatabaseAlreadyExists" THEN Ok(Unit) ELSE Err(k, DEFAULT_DATABASE)

\* the second new_with_default on the engine found DEFAULT_DATABASE there
C3_Witness ==
    /\ last = [op |-> "new_with_default", res |-> "Ok", created |-> "DatabaseAlreadyExists"]
    /\ Len(catalogs) = 2

\* C4: with_database(x) rebinds the database and keeps the catalog,
\* with_catalog(y) rebinds the catalog and keeps the database, and the clone
\* shares the registry of the original: what is created or dropped through the
\* clone or the original is seen alike by both.  (The original is a value the
\* call does not change.)
C4_ContextShadowing ==
    \A f \in facades :
        /\ \A x \in DatabaseNames :
              LET g == with_database(f, x) IN
              /\ schema_name(g) = x
              /\ catalog_name(g) = catalog_name(f)
              /\ g.catalog = f.catalog
              /\ \A t \in TableNames, ts \in TableSchemas :
                    LET by_clone == create_table(St, g, t, ts)
                        by_orig == create_table(St, f, Dot(x, t), ts)
                    IN  /\ by_clone = by_orig
                        /\ table(by_clone.st, f, from_str(Dot(x, t)))
                             = table(by_clone.st, g, from_str(t))
                        /\ drop_table(St, g, t) = drop_table(St, f, Dot(x, t))
                        /\ show_tables(by_clone.st, g, None) = show_tables(by_clone.st, f, Some(x))
              /\ \A d \in DatabaseNames :
                    /\ create_database(St, g, d, DatabaseSchema_new(d))
                         = create_database(St, f, d, DatabaseSchema_new(d))
                    /\ drop_database(St, g, d) = drop_database(St, f, d)
                    /\ database_names(drop_database(St, g, d).st, f)
                         = database_names(drop_database(St, g, d).st, g)
        /\ \A y \in CatalogNames :
              LET g == with_catalog(f, y) IN
              /\ catalog_name(g) = y
              /\ schema_name(g) = schema_name(f)
              /\ g.catalog = f.catalog

\* with_database returned a clone of another database than the bootstrap
\* facade's, and a table of that database is seen by both
C4_Witness ==
    /\ last.op = "with_database"
    /\ schema_name(last.val) # DEFAULT_DATABASE
    /\ \E t \in TableNames :
          LET f == LocalCatalogMeta(DEFAULT_CATALOG, DEFAULT_DATABASE, last.val.catalog) IN
          /\ IsOk(table(St, last.val, from_str(t)))
          /\ table(St, f, from_str(Dot(schema_name(last.val), t)))
               = table(St, last.val, from_str(t))

\* C5: a fully-qualified reference c.d.t resolves to (c, d, t) under every
\* context, so table, create_table, drop_table and the three column
\* alterations return the same, and leave the same state, under every context
\* a facade over the registry can have as under the bootstrap context.
C5_ResolutionIdempotent ==
    \A i \in DOMAIN catalogs : \A g \in Contexts(i), n \in FullRefs :
        LET f == LocalCatalogMeta(DEFAULT_CATALOG, DEFAULT_DATABASE, i) IN
        /\ resolve(from_str(n), catalog_name(g), schema_name(g))
             = [catalog |-> <<n[1]>>, schema |-> <<n[2]>>, table |-> <<n[3]>>]
        /\ table(St, g, from_str(n)) = table(St, f, from_str(n))
        /\ \A ts \in TableSchemas : create_table(St, g, n, ts) = create_table(St, f, n, ts)
        /\ drop_table(St, g, n) = drop_table(St, f, n)
        /\ \A ok \in BOOLEAN :
              /\ \A c \in AddColumns :
                    alter_table_add_column(St, g, n, c, ok)
                      = alter_table_add_column(St, f, n, c, ok)
              /\ \A a \in AlterColumns :
                    alter_table_alter_column(St, g, n, a[1], a[2], ok)
                      = alter_table_alter_column(St, f, n, a[1], a[2], ok)
              /\ \A c \in ColumnNames :
                    alter_table_drop_column(St, g, n, c, ok)
                      = alter_table_drop_column(St, f, n, c, ok)

\* a table was created under a fully-qualified name, and facades of two
\* databases find it under that name
C5_Witness ==
    /\ last = [op |-> "create_table", res |-> "Ok"]
    /\ \E f \in facades, g \in facades, n \in FullRefs :
          /\ schema_name(f) # schema_name(g)
          /\ catalog_name(f) # catalog_name(g)
          /\ IsOk(table(St, f, from_str(n)))
          /\ IsOk(table(St, g, from_str(n)))

\* C6 as claimed: the catalog component of every name a facade or the planner
\* adapter resolves is DEFAULT_CATALOG, with_catalog clones and references
\* that name a catalog included.
C6_SingleCatalog ==
    \A f \in facades, n \in Refs :
        /\ resolve(from_str(n), catalog_name(f), schema_name(f)).catalog = DEFAULT_CATALOG
        /\ ~IsOk(table(St, f, from_str(n)))
             => get_table_provider(St, f, from_str(n)).name[1] = DEFAULT_CATALOG

\* C6 as amended: the resolved catalog is the one the reference names, else
\* the facade's catalog_name: DEFAULT_CATALOG for a reference that names none
\* on the bootstrap facade and its with_database clones, y on a with_catalog(y)
\* clone; the planner adapter reports that same component.
C6_CatalogCarried ==
    \A f \in facades, n \in Refs :
        LET r == resolve(from_str(n), catalog_name(f), schema_name(f)) IN
        /\ r.catalog = IF Len(n) = 3 THEN <<n[1]>> ELSE catalog_name(f)
        /\ (Len(n) < 3 /\ catalog_name(f) = DEFAULT_CATALOG) => r.catalog = DEFAULT_CATALOG
        /\ ~IsOk(table(St, f, from_str(n)))
             => get_table_provider(St, f, from_str(n)).name[1] = r.catalog
        /\ \A y \in CatalogNames, x \in DatabaseNames :
              LET g == with_catalog(f, y)
                  h == with_database(f, x)
              IN  /\ Len(n) < 3 =>
                        resolve(from_str(n), catalog_name(g), schema_name(g)).catalog = y
                  /\ Len(n) < 3 =>
                        resolve(from_str(n), catalog_name(h), schema_name(h)).catalog
                          = catalog_name(f)

\* with_catalog returned a clone of another catalog
C6_Witness ==
    /\ last.op = "with_catalog"
    /\ catalog_name(last.val) # DEFAULT_CATALOG

\* C7 as claimed: get_table_provider(r) succeeds exactly when table(r) does,
\* for native and for external-listing tables.
C7_ExistsIffResolvable ==
    \A f \in facades, n \in Refs :
        IsOk(get_table_provider(St, f, from_str(n))) <=> IsOk(table(St, f, from_str(n)))

\* C7 as amended: get_table_provider(r) succeeds exactly when table(r)
\* succeeds and the table is native, or external with a location that parses
\* as a URL and file-format options that can be derived.
C7_ResolvableIffUsable ==
    \A f \in facades, n \in Refs :
        LET t == table(St, f, from_str(n))
            p == get_table_provider(St, f, from_str(n))
        IN  /\ IsOk(p) <=>
                  /\ IsOk(t)
                  /\ \/ t.val.kind = "TsKvTableSchema"
                     \/ /\ t.val.kind = "ExternalTableSchema"
                        /\ t.val.location = GoodLocation
                        /\ t.val.file_type = GoodFileType
            /\ IsOk(p) => p.val.schema = t.val

\* the three kinds are registered at once: a native table and an external
\* table the planner gets, and an external table it does not get
C7_Witness ==
    LET f == LocalCatalogMeta(DEFAULT_CATALOG, DEFAULT_DATABASE, 1) IN
    \E n \in PartialRefs, m \in PartialRefs, k \in PartialRefs :
        /\ IsOk(table(St, f, from_str(n)))
        /\ ~IsOk(get_table_provider(St, f, from_str(n)))
        /\ IsOk(get_table_provider(St, f, from_str(m)))
        /\ table(St, f, from_str(m)).val.kind = "ExternalTableSchema"
        /\ IsOk(get_table_provider(St, f, from_str(k)))
        /\ table(St, f, from_str(k)).val.kind = "TsKvTableSchema"

\* C8: when the engine rejects the column mutation of an alter_table_* call
\* (the call would have succeeded had the engine accepted), the call returns
\* an error and the engine, the databases and every table schema are what they
\* were before the call.
C8_AlterRollback ==
    \A f \in facades, n \in AlterRefs :
        LET Rolled(accepted, rejected) ==
                Modelled(accepted) =>
                    /\ ~IsOk(rejected.res)
                    /\ IsOk(accepted.res) => rejected.res.kind = "External"
                    /\ table(rejected.st, f, from_str(n)) = table(St, f, from_str(n))
                    /\ rejected.st = St
        IN  /\ \A c \in AddColumns :
                  Rolled(alter_table_add_column(St, f, n, c, TRUE),
                         alter_table_add_column(St, f, n, c, FALSE))
            /\ \A a \in AlterColumns :
                  Rolled(alter_table_alter_column(St, f, n, a[1], a[2], TRUE),
                         alter_table_alter_column(St, f, n, a[1], a[2], FALSE))
            /\ \A c \in ColumnNames :
                  Rolled(alter_table_drop_column(St, f, n, c, TRUE),
                         alter_table_drop_column(St, f, n, c, FALSE))

\* the engine rejected a column mutation of a table that has been altered
\* before
C8_Witness ==
    /\ last.op \in {"alter_table_add_column", "alter_table_alter_column",
                    "alter_table_drop_column"}
    /\ last.res = "External"
    /\ \E f \in facades, n \in AlterRefs :
          /\ IsOk(table(St, f, from_str(n)))
          /\ table(St, f, from_str(n)).val \notin TableSchemas

\* C9: table(r), drop_table(r) and show_tables fail with DatabaseNotExists
\* exactly when the resolved database is not registered; table(r) and
\* drop_table(r) fail with TableNotExists exactly when it is registered and
\* the resolved table is not in it; a drop_table that fails changes nothing.
C9_LookupErrorKinds ==
    \A f \in facades :
        /\ \A n \in Refs :
              LET r == resolve(from_str(n), catalog_name(f), schema_name(f))
                  cat == catalogs[f.catalog]
                  has_db == r.schema \in DOMAIN cat
                  has_table == has_db /\ r.table \in DOMAIN cat[r.schema].tables
                  t == table(St, f, from_str(n))
                  d == drop_table(St, f, n)
              IN  /\ t = Err("DatabaseNotExists", r.schema) <=> ~has_db
                  /\ t = Err("TableNotExists", r.table) <=> (has_db /\ ~has_table)
                  /\ IsOk(t) <=> has_table
                  /\ d.res = Err("DatabaseNotExists", r.schema) <=> ~has_db
                  /\ d.res = Err("TableNotExists", r.table) <=> (has_db /\ ~has_table)
                  /\ IsOk(d.res) <=> has_table
                  /\ ~IsOk(d.res) => d.st = St
        /\ \A o \in {None} \cup {Some(x) : x \in DatabaseNames} :
              LET x == IF o = None THEN schema_name(f) ELSE o.some
                  s == show_tables(St, f, o)
              IN  /\ s = Err("DatabaseNotExists", x) <=> x \notin DOMAIN catalogs[f.catalog]
                  /\ IsOk(s) <=> x \in DOMAIN catalogs[f.catalog]

\* a drop_table found its database and not its table, while some database is
\* not registered and some table is
C9_Witness ==
    /\ last = [op |-> "drop_table", res |-> "TableNotExists"]
    /\ \E f \in facades :
          /\ \E x \in DatabaseNames : show_tables(St, f, Some(x)) = Err("DatabaseNotExists", x)
          /\ \E n \in Refs : IsOk(table(St, f, from_str(n)))

\* C10: create_database(d, s) on a registered name d fails with
\* DatabaseAlreadyExists and leaves database_names(), the database object
\* under d, its tables and everything else as they were.
C10_CreateCollisionKeepsState ==
    \A f \in facades : \A d \in Registered(f), o \in DatabaseOptions :
        LET out == create_database(St, f, d, DatabaseSchema(d, o)) IN
        /\ out.res = Err("DatabaseAlreadyExists", d)
        /\ database_names(out.st, f) = database_names(St, f)
        /\ out.st.catalogs[f.catalog][d] = catalogs[f.catalog][d]
        /\ show_tables(out.st, f, Some(d)) = show_tables(St, f, Some(d))
        /\ \A t \in TableNames :
              table(out.st, f, from_str(Dot(d, t))) = table(St, f, from_str(Dot(d, t)))
        /\ out.st = St

\* create_database collided with a database that holds a table
C10_Witness ==
    /\ last = [op |-> "create_database", res |-> "DatabaseAlreadyExists"]
    /\ \E f \in facades, d \in DatabaseNames :
          /\ IsOk(show_tables(St, f, Some(d)))
          /\ show_tables(St, f, Some(d)).val # {}

\* C11: drop_database(d) on a registered d succeeds and takes every table of d
\* with it: table("d.t") then fails with DatabaseNotExists for every t and
\* every context, and after a following create_database(d, s') show_tables(d)
\* is empty and table("d.t") fails with TableNotExists; on a name that is not
\* registered drop_database fails with DatabaseNotExists and changes nothing.
C11_DropDatabaseTransitive ==
    \A f \in facades, d \in DatabaseNames :
        LET dropped == drop_database(St, f, d) IN
        IF d \in Registered(f)
        THEN /\ IsOk(dropped.res)
             /\ \A g \in Contexts(f.catalog), t \in TableNames :
                   table(dropped.st, g, from_str(Dot(d, t))) = Err("DatabaseNotExists", d)
             /\ \A o \in DatabaseOptions :
                   LET again == create_database(dropped.st, f, d, DatabaseSchema(d, o)) IN
                   /\ IsOk(again.res)
                   /\ show_tables(again.st, f, Some(d)) = Ok({})
                   /\ \A t \in TableNames :
                         table(again.st, f, from_str(Dot(d, t))) = Err("TableNotExists", t)
        ELSE /\ dropped.res = Err("DatabaseNotExists", d)
             /\ dropped.st = St

\* a database that held tables was dropped, while the other database is
\* registered and holds one
C11_Witness ==
    /\ last = [op |-> "drop_database", res |-> "Ok", with_tables |-> TRUE]
    /\ \E f \in facades, d \in DatabaseNames, e \in DatabaseNames :
          /\ show_tables(St, f, Some(d)) = Err("DatabaseNotExists", d)
          /\ IsOk(show_tables(St, f, Some(e)))
          /\ show_tables(St, f, Some(e)).val # {}

\* C12: create_table on a name that is registered in its database succeeds,
\* table(ref) then returns the new schema, and the table names of the
\* database, every other table and every other database are as before.
C12_CreateTableUpsert ==
    \A f \in facades, n \in Refs :
        IsOk(table(St, f, from_str(n))) =>
            \A s2 \in TableSchemas :
                LET r == resolve(from_str(n), catalog_name(f), schema_name(f))
                    out == create_table(St, f, n, s2)
                IN  /\ IsOk(out.res)
                    /\ table(out.st, f, from_str(n)) = Ok(s2)
                    /\ show_tables(out.st, f, Some(r.schema)) = show_tables(St, f, Some(r.schema))
                    /\ out.st.engine = engine
                    /\ \A d \in Registered(f) \ {r.schema} :
                          out.st.catalogs[f.catalog][d] = catalogs[f.catalog][d]
                    /\ \A t \in TableNames \ {r.table} :
                          Database_table(out.st.catalogs[f.catalog][r.schema], t)
                            = Database_table(catalogs[f.catalog][r.schema], t)

\* a create_table replaced the schema of a registered table by another one
C12_Witness ==
    /\ last = [op |-> "create_table", res |-> "Ok", replaced |-> TRUE]
    /\ \E f \in facades, n \in PartialRefs :
          /\ IsOk(table(St, f, from_str(n)))
          /\ table(St, f, from_str(n)).val \in ExternalSchemas

\* C13: under any interleaving of create_table, drop_table, create_database
\* and drop_database, what show_tables returns is the table-name set the
\* registry held for the database at some instant since the call started,
\* and what database_names returns is the registry's name set at the instant
\* of the call.
C13_ListingSnapshot ==
    /\ \A p \in DOMAIN inflight :
          inflight[p].op = "show_tables" =>
              Ok(table_names(Deref(inflight[p].handle))) \in inflight[p].seen
    /\ last.op = "database_names" => last.val = schema_names(catalogs[1])

\* C14: whenever table(r) fails, for a missing database or a missing table,
\* get_table_provider(r) returns a plan error that names the catalog, the
\* database and the table of r as resolved against the facade's context: for
\* a bare reference the facade's catalog (default_catalog on a default
\* facade), its current database and the table name.
C14_MissingTableSurfacesName ==
    \A f \in facades, n \in Refs :
        ~IsOk(table(St, f, from_str(n))) =>
            get_table_provider(St, f, from_str(n))
              = Err("Plan",
                    CASE Len(n) = 1 -> <<catalog_name(f), schema_name(f), n>>
                      [] Len(n) = 2 -> <<catalog_name(f), <<n[1]>>, <<n[2]>>>>
                      [] Len(n) = 3 -> <<<<n[1]>>, <<n[2]>>, <<n[3]>>>>)

\* a table was dropped: on the default facade a bare reference misses its
\* table and a qualified one misses its database
C14_Witness ==
    /\ last = [op |-> "drop_table", res |-> "Ok"]
    /\ \E n \in BareRefs, m \in PartialRefs :
          LET f == LocalCatalogMeta(DEFAULT_CATALOG, DEFAULT_DATABASE, 1) IN
          /\ IsErr(table(St, f, from_str(n)), "TableNotExists")
          /\ get_table_provider(St, f, from_str(n)).name = <<DEFAULT_CATALOG, DEFAULT_DATABASE, n>>
          /\ IsErr(table(St, f, from_str(m)), "DatabaseNotExists")
          /\ IsErr(get_table_provider(St, f, from_str(m)), "Plan")

\* C15: every registered native table has its time column and at least one
\* field column, whatever calls have run, and for every reference that names
\* such a table: a drop of the time column or of the last field column fails
\* with InvalidColumnDrop and changes nothing, a drop of an absent column fails
\* with ColumnNotExists and changes nothing, and after any drop the table still
\* has its time column and a field column.
C15_ColumnDropPolicy ==
    \A f \in facades, n \in AlterRefs :
        LET t == table(St, f, from_str(n))
            Kept(ts) == /\ \E c \in ts.columns : c.role = "time"
                        /\ FieldsOf(ts) # {}
        IN  (IsOk(t) /\ t.val.kind = "TsKvTableSchema") =>
            /\ Kept(t.val)
            /\ \A c \in ColumnNames, ok \in BOOLEAN :
                  LET out == alter_table_drop_column(St, f, n, c, ok)
                      there == c \in ColumnNamesOf(t.val)
                      protected == /\ there
                                   /\ \/ ColumnNamed(t.val, c).role = "time"
                                      \/ FieldsOf(t.val) = {ColumnNamed(t.val, c)}
                  IN  /\ IsOk(table(out.st, f, from_str(n)))
                      /\ Kept(table(out.st, f, from_str(n)).val)
                      /\ protected => (IsErr(out.res, "InvalidColumnDrop") /\ out.st = St)
                      /\ ~there => (IsErr(out.res, "ColumnNotExists") /\ out.st = St)

\* C16: for a non-empty list b1..bn the stream of stream_from_batches yields
\* b1, then b2, ..., then bn, each once and in that order, and after them the
\* end of the stream on every further poll; it yields nothing else.
C16_StreamOrder ==
    last.given # <<>> =>
        /\ IsOk(stream.made)
        /\ \A i \in 1 .. Len(stream.polled) :
              stream.polled[i] = IF i <= Len(last.given) THEN Some(last.given[i]) ELSE None

\* a list of different batches was polled through and past its end
C16_Witness ==
    /\ Len(last.given) >= 2
    /\ last.given[1] # last.given[2]
    /\ Len(stream.polled) = Len(last.given) + MaxEndPolls

\* C17: for every reference, bare, db.table or catalog.db.table, the three
\* column alterations look up the same table, the resolved table inside the
\* resolved database: each fails with TableNotExists exactly when that table
\* is not registered there, and a drop of a droppable column of a registered
\* table that the engine accepts succeeds and removes the column.
C17_UniformResolution ==
    \A f \in facades, n \in AlterRefs :
        LET r == resolve(from_str(n), catalog_name(f), schema_name(f))
            cat == catalogs[f.catalog]
            has_db == r.schema \in DOMAIN cat
            has_table == has_db /\ r.table \in DOMAIN cat[r.schema].tables
            Missing(out) == out.res.tag = "Err" /\ out.res.kind = "TableNotExists"
        IN  has_db =>
            /\ \A c \in AddColumns :
                  Missing(alter_table_add_column(St, f, n, c, TRUE)) <=> ~has_table
            /\ \A a \in AlterColumns :
                  Missing(alter_table_alter_column(St, f, n, a[1], a[2], TRUE)) <=> ~has_table
            /\ \A c \in ColumnNames :
                  LET out == alter_table_drop_column(St, f, n, c, TRUE) IN
                  /\ Missing(out) <=> ~has_table
                  /\ (/\ has_table
                      /\ cat[r.schema].tables[r.table].kind = "TsKvTableSchema"
                      /\ c \in {x.name : x \in FieldsOf(cat[r.schema].tables[r.table])}
                      /\ Cardinality(FieldsOf(cat[r.schema].tables[r.table])) > 1)
                     => /\ IsOk(out.res)
                        /\ c \notin ColumnNamesOf(table(out.st, f, from_str(n)).val)

\* C18: the catalog is no lookup key: table("c1.d.t") and table("c2.d.t")
\* return the same, schema or error, as table("d.t"), for every catalog name
\* and every facade context; and create_table under any catalog component, or
\* through a with_catalog clone, registers the one table d.t that every
\* facade over the registry then sees.
C18_CatalogNotALookupKey ==
    \A f \in facades, d \in DatabaseNames, t \in TableNames :
        /\ \A c1 \in CatalogNames, c2 \in CatalogNames :
              /\ table(St, f, from_str(Dot(c1, Dot(d, t)))) = table(St, f, from_str(Dot(c2, Dot(d, t))))
              /\ table(St, f, from_str(Dot(c1, Dot(d, t)))) = table(St, f, from_str(Dot(d, t)))
        /\ \A ts \in TableSchemas :
              LET plain == create_table(St, f, Dot(d, t), ts) IN
              /\ \A c \in CatalogNames :
                    /\ create_table(St, f, Dot(c, Dot(d, t)), ts) = plain
                    /\ create_table(St, with_catalog(f, c), Dot(d, t), ts) = plain
              /\ IsOk(plain.res) =>
                    \A g \in Contexts(f.catalog), c \in CatalogNames :
                        table(plain.st, g, from_str(Dot(c, Dot(d, t)))) = Ok(ts)

\* a table was created, and the default facade finds it under the name of
\* another catalog while a facade of that catalog finds it under
\* default_catalog
C18_Witness ==
    /\ last.op = "create_table"
    /\ last.res = "Ok"
    /\ \E d \in DatabaseNames \ {DEFAULT_DATABASE}, t \in TableNames :
          /\ IsOk(table(St, LocalCatalogMeta(DEFAULT_CATALOG, DEFAULT_DATABASE, 1),
                        from_str(Dot(<<"tenant">>, Dot(d, t)))))
          /\ IsOk(table(St, LocalCatalogMeta(<<"tenant">>, d, 1),
                        from_str(Dot(DEFAULT_CATALOG, Dot(d, t)))))

\* C19: over one engine and one registry, whatever create_database,
\* drop_database and alter_database calls have run, database(d), answered by
\* the engine, succeeds exactly when d is in database_names(), answered by
\* the registry; and alter_database, whatever the engine answers, changes
\* neither database_names() nor any table registration.
C19_EngineRegistryAgree ==
    \A f \in facades :
        /\ \A d \in DatabaseNames :
              IsOk(database(St, f, d)) <=> d \in database_names(St, f).val
        /\ \A s \in DbSchemas, ok \in BOOLEAN :
              LET out == alter_database(St, f, s, ok) IN
              /\ database_names(out.st, f) = database_names(St, f)
              /\ out.st.catalogs = catalogs

\* C20: a create_table, drop_table or alter_table_* call that has fetched the
\* Database object of d applies its mutation to the object registered under
\* d, never to one that drop_database has deregistered, whatever drop_database
\* and create_database calls run between its two accesses.
C20_NoMutationOnDeregistered ==
    \A p \in DOMAIN inflight :
        inflight[p].op \in {"create_table", "drop_table", "alter_table_add_column",
                           "alter_table_alter_column", "alter_table_drop_column"} =>
            Live(inflight[p].handle)

====
